---- MODULE Spec2Model ----
(***************************************************************************)
(* S3 <-> DB synchronisation job of the file manager (jobs/sync-s3-db.ts)  *)
(* together with the collaborators it calls: S3Service.listFiles, the      *)
(* prisma File table and the Kafka deletion-event publisher.               *)
(*                                                                         *)
(* Strings of the program are TLA+ strings; the key codec, the listing     *)
(* and the diff are computed character by character as the code does.      *)
(* A start() invocation is a process whose position (pc) is the await it   *)
(* is suspended on: JavaScript runs the code between two awaits atomically.*)
(*                                                                         *)
(* Spec      the job alone, invoked by overlapping triggers                *)
(* CodecSpec getKeyFromUrl applied to urls of every shape                  *)
(* FlowSpec  the job of the hourly trigger while the API serves            *)
(*           fileRouter.upload and fileRouter.delete requests              *)
(* DeleteSpec the same with fileRouter.delete requests only                *)
(* LiveSpec  the job alone, every call it awaits eventually settling       *)
(* InstSpec  two job instances of one process, each with its own caller    *)
(***************************************************************************)
EXTENDS Integers, Sequences, FiniteSets, TLC

(***************************************************************************)
(* Bounds of the model                                                     *)
(***************************************************************************)
\* total number of start() invocations over all triggers
MaxStarts == 2

\* total number of calls (store, table, event bus) that fail
MaxFaults == 1

\* total number of upload and delete requests
MaxRequests == 1

\* the triggers that invoke start() on the job instance syncJob
Callers == {"cron", "manual"}

\* the S3DBSyncJob instances of the process, and the code that holds one:
\* the cron callback and the manual trigger call start() on syncJob, the
\* caller "other" on an instance of its own
Jobs == {"syncJob", "otherJob"}

AllCallers == Callers \cup {"other"}

\* the instance caller c invokes start() on, with its isRunning kept in a
\* static field shared by all instances
jobOf_static(c) == "syncJob"

\* the instance caller c invokes start() on (this in start())
jobOf(c) == IF c = "other" THEN "otherJob" ELSE "syncJob"

(***************************************************************************)
(* Configuration (packages/config/src/s3.ts, services/s3.ts)               *)
(***************************************************************************)
endpoint == "http://localhost:9000"
bucket == "files"
ListPrefix == "files/"
SystemSync == "system-sync"

\* number of keys one ListObjectsV2 response carries; listFiles sends one
\* request and never follows a continuation token (1000 in S3, scaled down)
MaxKeys == 2

(***************************************************************************)
(* String helpers (String.prototype.startsWith / endsWith / slice /        *)
(* indexOf / split(...).pop())                                             *)
(***************************************************************************)
startsWith(s, p) == Len(s) >= Len(p) /\ SubSeq(s, 1, Len(p)) = p

endsWith(s, p) == Len(s) >= Len(p) /\ SubSeq(s, Len(s) - Len(p) + 1, Len(s)) = p

\* s.slice(n): the characters after the first n
slice(s, n) == SubSeq(s, n + 1, Len(s))

\* 1-based position of the first ch in s, 0 when absent (indexOf + 1)
RECURSIVE indexFrom(_, _, _)
indexFrom(s, ch, i) ==
    IF i > Len(s) THEN 0
    ELSE IF SubSeq(s, i, i) = ch THEN i
    ELSE indexFrom(s, ch, i + 1)

\* 1-based position of the last ch in s, 0 when absent
RECURSIVE lastIndexFrom(_, _, _)
lastIndexFrom(s, ch, i) ==
    IF i < 1 THEN 0
    ELSE IF SubSeq(s, i, i) = ch THEN i
    ELSE lastIndexFrom(s, ch, i - 1)

\* s.split(ch).pop(): what follows the last ch, all of s when there is none
splitPop(s, ch) == slice(s, lastIndexFrom(s, ch, Len(s)))

\* toLowerCase on the extensions that occur in the bucket
toLowerCase(s) ==
    CASE s = "JPG" -> "jpg"
      [] s = "PNG" -> "png"
      [] s = "TXT" -> "txt"
      [] OTHER -> s

Range(seq) == {seq[i] : i \in 1..Len(seq)}

\* the rows of a set in ascending order of id
RECURSIVE byId(_)
byId(S) ==
    IF S = {} THEN <<>>
    ELSE LET x == CHOOSE y \in S : \A z \in S : y.id <= z.id
         IN  <<x>> \o byId(S \ {x})

reverse(seq) == [k \in 1..Len(seq) |-> seq[Len(seq) + 1 - k]]

\* the orders in which findMany (no orderBy) returns the rows of the table
rowOrders(S) == {byId(S), reverse(byId(S))}

(***************************************************************************)
(* The object store: objects that may be present in the bucket, in the     *)
(* UTF-8 binary key order in which ListObjectsV2 returns them.             *)
(***************************************************************************)
BucketObjects ==
    << [Key |-> "files/",                  Size |-> 0],
       [Key |-> "files/image/1-a-b.JPG",   Size |-> 1024],
       [Key |-> "files/text/notes",        Size |-> 7],
       [Key |-> "tmp/9-x.png",             Size |-> 33] >>

(***************************************************************************)
(* Uploads (fileRouter.upload input, S3Service.uploadFile key)             *)
(***************************************************************************)
\* Date.now() of the k-th request, as it is written into the key
toString(k) == SubSeq("0123456789", k + 1, k + 1)

\* what a client uploads; uploadedBy is whatever string the request
\* carries (z.string().min(1), taken from the query of the REST route)
UploadInputs ==
    { [name |-> "a-b.JPG", originalName |-> "a-b.JPG", size |-> 1024,
       mimeType |-> "image/jpeg", uploadedBy |-> "alice"],
      [name |-> "a-b.JPG", originalName |-> "a-b.JPG", size |-> 1024,
       mimeType |-> "image/jpeg", uploadedBy |-> SystemSync] }

\* who asks for a delete
Deleters == {"alice"}

\* mimeType.split('/')[0]
typePrefix(mimeType) ==
    IF indexFrom(mimeType, "/", 1) = 0 THEN mimeType
    ELSE SubSeq(mimeType, 1, indexFrom(mimeType, "/", 1) - 1)

\* the key S3Service.uploadFile gives an upload at time timestamp
uploadKey(input, timestamp) ==
    "files/" \o typePrefix(input.mimeType) \o "/" \o toString(timestamp)
        \o "-" \o input.originalName

\* the objects the later uploads put (the first upload puts the object whose
\* key carries timestamp 1), and all objects in the key order of a listing
LaterUploads ==
    LET input == CHOOSE i \in UploadInputs : TRUE
    IN  [k \in 1..(MaxRequests - 1) |->
            [Key |-> uploadKey(input, k + 1), Size |-> input.size]]

ListingOrder ==
    SubSeq(BucketObjects, 1, 2) \o LaterUploads
        \o SubSeq(BucketObjects, 3, Len(BucketObjects))

(***************************************************************************)
(* Rows that may be in the files table before the first run                *)
(***************************************************************************)
publicUrl(key) == endpoint \o "/" \o bucket \o "/" \o key

InitialRows ==
    { [id |-> 1, name |-> "a-b.JPG", originalName |-> "a-b.JPG",
       url |-> publicUrl("files/image/1-a-b.JPG"), size |-> 1024,
       mimeType |-> "image/jpeg", uploadedBy |-> "alice"],
      [id |-> 2, name |-> "my notes", originalName |-> "notes",
       url |-> publicUrl("files/text/notes"), size |-> 7,
       mimeType |-> "text/plain", uploadedBy |-> "bob"],
      [id |-> 3, name |-> "copy.jpg", originalName |-> "a-b.JPG",
       url |-> publicUrl("files/image/1-a-b.JPG"), size |-> 1024,
       mimeType |-> "image/jpeg", uploadedBy |-> "bob"],
      [id |-> 4, name |-> "old notes", originalName |-> "notes",
       url |-> "http://minio:9000/files/files/text/notes", size |-> 7,
       mimeType |-> "text/plain", uploadedBy |-> "alice"] }

FirstNewId == Cardinality(InitialRows) + 1

(***************************************************************************)
(* S3Service.getMimeType and S3Service.listFiles                           *)
(***************************************************************************)
getMimeType(fileName) ==
    LET extension == toLowerCase(splitPop(fileName, "."))
    IN  CASE extension \in {"jpg", "jpeg"} -> "image/jpeg"
          [] extension = "png" -> "image/png"
          [] extension = "gif" -> "image/gif"
          [] extension = "webp" -> "image/webp"
          [] extension = "pdf" -> "application/pdf"
          [] extension = "txt" -> "text/plain"
          [] extension = "csv" -> "text/csv"
          [] OTHER -> "application/octet-stream"

\* the FileType object with a url that leaves the bucket out
toFileType_noBucket(obj) ==
    LET fileName == splitPop(obj.Key, "/")
        actualName == slice(fileName, indexFrom(fileName, "-", 1))
    IN  [id |-> obj.Key, name |-> actualName, size |-> obj.Size,
         originalName |-> actualName, url |-> endpoint \o "/" \o obj.Key,
         mimeType |-> getMimeType(fileName), uploadedBy |-> "system"]

\* the FileType object listFiles builds for one entry of response.Contents
toFileType(obj) ==
    LET fileName == splitPop(obj.Key, "/")
        actualName == slice(fileName, indexFrom(fileName, "-", 1))
    IN  [id |-> obj.Key, name |-> actualName, size |-> obj.Size,
         originalName |-> actualName, url |-> publicUrl(obj.Key),
         mimeType |-> getMimeType(fileName), uploadedBy |-> "system"]

\* the FileType object of every object a listing can carry
FileTypes == [o \in Range(ListingOrder) |-> toFileType(o)]

\* response.Contents of the one ListObjectsV2 request: the objects under the
\* prefix, in key order, cut after MaxKeys entries
listResponse(st) ==
    LET under == SelectSeq(ListingOrder,
                     LAMBDA o : o \in st /\ startsWith(o.Key, ListPrefix))
    IN  SubSeq(under, 1, IF Len(under) < MaxKeys THEN Len(under) ELSE MaxKeys)

listFiles(st) ==
    LET Contents == SelectSeq(listResponse(st),
                        LAMBDA o : ~endsWith(o.Key, "/"))
    IN  [i \in 1..Len(Contents) |-> FileTypes[Contents[i]]]

(***************************************************************************)
(* S3DBSyncJob: key codec and diff                                         *)
(***************************************************************************)
\* getKeyFromUrl with a prefix that lacks the slash after the bucket
getKeyFromUrl_noSlash(url) ==
    LET prefix == endpoint \o "/" \o bucket
    IN  IF startsWith(url, prefix) THEN slice(url, Len(prefix)) ELSE url

getKeyFromUrl(url) ==
    LET prefix == endpoint \o "/" \o bucket \o "/"
    IN  IF startsWith(url, prefix) THEN slice(url, Len(prefix)) ELSE url

\* the DBFile projection of listDBFiles (select id, name, url, size, mimeType)
toDBFile(row) ==
    [id |-> row.id, name |-> row.name, url |-> row.url, size |-> row.size,
     mimeType |-> row.mimeType]

\* the diff comparing store keys with the urls themselves, codec forgotten
findDiscrepancies_rawUrl(s3Files, dbFiles) ==
    LET s3Keys == {s3Files[i].id : i \in 1..Len(s3Files)}
        dbUrls == {dbFiles[i].url : i \in 1..Len(dbFiles)}
    IN  [missingInDB |-> SelectSeq(s3Files, LAMBDA f : f.id \notin dbUrls),
         missingInS3 |-> SelectSeq(dbFiles, LAMBDA f : f.url \notin s3Keys)]

\* the diff testing both directions against the same key set
findDiscrepancies_sameSet(s3Files, dbFiles) ==
    LET s3Keys == {s3Files[i].id : i \in 1..Len(s3Files)}
        dbUrls == {getKeyFromUrl(dbFiles[i].url) : i \in 1..Len(dbFiles)}
    IN  [missingInDB |-> SelectSeq(s3Files, LAMBDA f : f.id \notin dbUrls),
         missingInS3 |-> SelectSeq(dbFiles,
                             LAMBDA f : getKeyFromUrl(f.url) \notin dbUrls)]

\* the diff keeping, of the rows that share a key, only the first one
findDiscrepancies_dedupe(s3Files, dbFiles) ==
    LET s3Keys == {s3Files[i].id : i \in 1..Len(s3Files)}
        dbUrls == {getKeyFromUrl(dbFiles[i].url) : i \in 1..Len(dbFiles)}
        first(f) == \A i, j \in 1..Len(dbFiles) :
                        (dbFiles[j] = f /\ i < j) =>
                            getKeyFromUrl(dbFiles[i].url) # getKeyFromUrl(f.url)
    IN  [missingInDB |-> SelectSeq(s3Files, LAMBDA f : f.id \notin dbUrls),
         missingInS3 |-> SelectSeq(dbFiles,
                             LAMBDA f : getKeyFromUrl(f.url) \notin s3Keys
                                        /\ first(f))]

findDiscrepancies(s3Files, dbFiles) ==
    LET s3Keys == {s3Files[i].id : i \in 1..Len(s3Files)}
        dbUrls == {getKeyFromUrl(dbFiles[i].url) : i \in 1..Len(dbFiles)}
    IN  [missingInDB |-> SelectSeq(s3Files, LAMBDA f : f.id \notin dbUrls),
         missingInS3 |-> SelectSeq(dbFiles,
                             LAMBDA f : getKeyFromUrl(f.url) \notin s3Keys)]

\* the create data built by spreading the listed file, uploadedBy included
createData_spread(file) ==
    [name |-> file.name, originalName |-> file.originalName, url |-> file.url,
     size |-> file.size, mimeType |-> file.mimeType,
     uploadedBy |-> file.uploadedBy]

\* the data handleMissingInDB passes to prisma.file.create
createData(file) ==
    [name |-> file.name, originalName |-> file.originalName, url |-> file.url,
     size |-> file.size, mimeType |-> file.mimeType, uploadedBy |-> SystemSync]

\* the event data carrying the url of the row in place of its name
deletedEventData_url(file) ==
    [fileId |-> file.id, fileName |-> file.url, deletedBy |-> SystemSync]

\* the event data handleMissingInS3 passes to publishFileDeletedEvent
deletedEventData(file) ==
    [fileId |-> file.id, fileName |-> file.name, deletedBy |-> SystemSync]

(***************************************************************************)
(* State                                                                   *)
(***************************************************************************)
VARIABLES
    store,      \* objects present in the bucket
    catalog,    \* rows of the files table
    nextId,     \* id the table gives the next created row
    producer,   \* services/kafka.ts: TRUE when the producer is initialised
    events,     \* messages delivered to the file-events topic
    isRunning,  \* S3DBSyncJob.isRunning of each instance
    pc,         \* per trigger: the await its start() invocation is at
    loc,        \* per trigger: its run (index in runs) and loop position
    runs,       \* per admitted run: its snapshots, diff and issued calls
    warns,      \* number of logger.warn calls
    starts,     \* number of start() invocations so far
    faults,     \* number of calls that have failed so far
    req,        \* the tRPC request in flight: procedure, await, locals
    reqs,       \* number of tRPC requests received so far
    catalog0,   \* the rows of the table before the first run or request
    deletedPubs, \* the calls of publishFileDeletedEvent: caller and fileId
    codec       \* getKeyFromUrl called on its own: argument and result

vars == <<store, catalog, nextId, producer, events, isRunning, pc, loc, runs,
          warns, starts, faults, req, reqs, catalog0, codec, deletedPubs>>

InFlightPcs == {"listS3", "listDB", "create", "delete", "publish"}

InFlight(c) == pc[c] \in InFlightPcs

NoLoc == [n |-> 0, i |-> 0]

\* no request in flight
NoReq == [op |-> "none", pc |-> "idle"]

\* number of requests that have finished
Finished == IF req.op = "none" THEN reqs ELSE reqs - 1

\* getKeyFromUrl not called on its own
NoCall == [url |-> "", key |-> "", from |-> <<>>, returned |-> FALSE]

\* log entry of a run at the moment start() has set the flag and has called
\* listS3Files
NewRun(c) ==
    [caller |-> c, outcome |-> "running", failed |-> "none",
     raised |-> "none", listCalls |-> 1, readCalls |-> 0,
     s3Files |-> <<>>, dbFiles |-> <<>>, diffed |-> FALSE,
     missingInDB |-> <<>>, missingInS3 |-> <<>>,
     inserts |-> <<>>, deletes |-> <<>>, pubs |-> <<>>,
     reqsDone |-> Finished]

Init ==
    /\ store \in SUBSET Range(BucketObjects)
    /\ catalog \in SUBSET InitialRows
    /\ nextId = FirstNewId
    /\ producer \in BOOLEAN
    /\ events = <<>>
    /\ isRunning = [j \in Jobs |-> FALSE]
    /\ pc = [c \in AllCallers |-> "idle"]
    /\ loc = [c \in AllCallers |-> NoLoc]
    /\ runs = <<>>
    /\ warns = 0
    /\ starts = 0
    /\ faults = 0
    /\ req = NoReq
    /\ reqs = 0
    /\ catalog0 = catalog
    /\ deletedPubs = <<>>
    /\ codec = NoCall

(***************************************************************************)
(* S3DBSyncJob.start                                                       *)
(***************************************************************************)
\* start() without the isRunning guard: every invocation is admitted
Start_noGuard(c) ==
    /\ ~InFlight(c)
    /\ starts < MaxStarts
    /\ starts' = starts + 1
    /\ isRunning' = [isRunning EXCEPT ![jobOf(c)] = TRUE]
    /\ runs' = Append(runs, NewRun(c))
    /\ pc' = [pc EXCEPT ![c] = "listS3"]
    /\ loc' = [loc EXCEPT ![c] = [n |-> Len(runs) + 1, i |-> 0]]
    /\ UNCHANGED <<store, catalog, nextId, producer, events, warns, faults>>
    /\ UNCHANGED <<codec, req, reqs, catalog0, deletedPubs>>

\* start() with the guard inside the try block: the finally of a rejected
\* invocation clears the flag of the run in flight
Start_guardInTry(c) ==
    /\ ~InFlight(c)
    /\ starts < MaxStarts
    /\ starts' = starts + 1
    /\ IF isRunning[jobOf(c)]
       THEN /\ warns' = warns + 1
            /\ pc' = [pc EXCEPT ![c] = "skipped"]
            /\ loc' = [loc EXCEPT ![c] = NoLoc]
            /\ isRunning' = [isRunning EXCEPT ![jobOf(c)] = FALSE]
            /\ UNCHANGED runs
       ELSE /\ isRunning' = [isRunning EXCEPT ![jobOf(c)] = TRUE]
            /\ runs' = Append(runs, NewRun(c))
            /\ pc' = [pc EXCEPT ![c] = "listS3"]
            /\ loc' = [loc EXCEPT ![c] = [n |-> Len(runs) + 1, i |-> 0]]
            /\ UNCHANGED warns
    /\ UNCHANGED <<store, catalog, nextId, producer, events, faults>>
    /\ UNCHANGED <<codec, req, reqs, catalog0, deletedPubs>>

\* start() up to its first await: the guard, the flag, the call of
\* listS3Files
Start(c) ==
    /\ ~InFlight(c)
    /\ starts < MaxStarts
    /\ starts' = starts + 1
    /\ IF isRunning[jobOf(c)]
       THEN /\ warns' = warns + 1
            /\ pc' = [pc EXCEPT ![c] = "skipped"]
            /\ loc' = [loc EXCEPT ![c] = NoLoc]
            /\ UNCHANGED <<isRunning, runs>>
       ELSE /\ isRunning' = [isRunning EXCEPT ![jobOf(c)] = TRUE]
            /\ runs' = Append(runs, NewRun(c))
            /\ pc' = [pc EXCEPT ![c] = "listS3"]
            /\ loc' = [loc EXCEPT ![c] = [n |-> Len(runs) + 1, i |-> 0]]
            /\ UNCHANGED warns
    /\ UNCHANGED <<store, catalog, nextId, producer, events, faults>>
    /\ UNCHANGED <<codec, req, reqs, catalog0, deletedPubs>>

\* start() clearing the flag as soon as the last delete has resolved, the
\* publication for it still outstanding
Proceed_clearAtLastDelete(c, npc, ni, r) ==
    /\ pc' = [pc EXCEPT ![c] = npc]
    /\ loc' = [loc EXCEPT ![c].i = ni]
    /\ runs' = [runs EXCEPT ![loc[c].n] =
                   IF npc = "returned" THEN [r EXCEPT !.outcome = "returned"]
                   ELSE r]
    /\ isRunning' = IF npc = "returned"
                       \/ (npc = "publish" /\ ni = Len(r.missingInS3))
                    THEN [isRunning EXCEPT ![jobOf(c)] = FALSE]
                    ELSE isRunning

\* the rest of start() after an await has resumed: the next await of the
\* run (position npc, loop index ni), or the normal end with the finally
Proceed(c, npc, ni, r) ==
    /\ pc' = [pc EXCEPT ![c] = npc]
    /\ loc' = [loc EXCEPT ![c].i = ni]
    /\ runs' = [runs EXCEPT ![loc[c].n] =
                   IF npc = "returned" THEN [r EXCEPT !.outcome = "returned"]
                   ELSE r]
    /\ isRunning' = IF npc = "returned"
                    THEN [isRunning EXCEPT ![jobOf(c)] = FALSE]
                    ELSE isRunning

\* the catch of start() without the finally: the flag stays set
Rethrow_noFinally(c, err) ==
    /\ pc' = [pc EXCEPT ![c] = "raised"]
    /\ runs' = [runs EXCEPT ![loc[c].n] =
                   [@ EXCEPT !.failed = err, !.raised = err,
                             !.outcome = "raised"]]
    /\ UNCHANGED <<isRunning, loc>>

\* the catch of start() logging the error without re-throwing it
Rethrow_swallow(c, err) ==
    /\ pc' = [pc EXCEPT ![c] = "returned"]
    /\ runs' = [runs EXCEPT ![loc[c].n] =
                   [@ EXCEPT !.failed = err, !.outcome = "returned"]]
    /\ isRunning' = [isRunning EXCEPT ![jobOf(c)] = FALSE]
    /\ UNCHANGED loc

\* catch, re-throw and finally of start() for an error err thrown by a read
Rethrow(c, err) ==
    /\ pc' = [pc EXCEPT ![c] = "raised"]
    /\ runs' = [runs EXCEPT ![loc[c].n] =
                   [@ EXCEPT !.failed = err, !.raised = err,
                             !.outcome = "raised"]]
    /\ isRunning' = [isRunning EXCEPT ![jobOf(c)] = FALSE]
    /\ UNCHANGED loc

\* s3Service.listFiles resolves; start() calls listDBFiles
ListS3Ok(c) ==
    /\ pc[c] = "listS3"
    /\ Proceed(c, "listDB", 0,
           [runs[loc[c].n] EXCEPT !.s3Files = listFiles(store),
                                  !.readCalls = 1])
    /\ UNCHANGED <<store, catalog, nextId, producer, events, warns, starts, faults>>
    /\ UNCHANGED <<codec, req, reqs, catalog0, deletedPubs>>

\* listS3Files catching the error and answering an empty listing
ListS3Fail_asEmpty(c) ==
    /\ pc[c] = "listS3"
    /\ faults < MaxFaults
    /\ faults' = faults + 1
    /\ Proceed(c, "listDB", 0,
           [runs[loc[c].n] EXCEPT !.failed = "S3 error", !.readCalls = 1])
    /\ UNCHANGED <<store, catalog, nextId, producer, events, warns, starts>>
    /\ UNCHANGED <<codec, req, reqs, catalog0, deletedPubs>>

\* s3Service.listFiles rejects
ListS3Fail(c) ==
    /\ pc[c] = "listS3"
    /\ faults < MaxFaults
    /\ faults' = faults + 1
    /\ Rethrow(c, "S3 error")
    /\ UNCHANGED <<store, catalog, nextId, producer, events, warns, starts>>
    /\ UNCHANGED <<codec, req, reqs, catalog0, deletedPubs>>

\* where the run goes after the diff
afterDiff(d) ==
    IF Len(d.missingInDB) > 0 THEN "create"
    ELSE IF Len(d.missingInS3) > 0 THEN "delete"
    ELSE "returned"

\* prisma.file.findMany resolves (rows in an order the table chooses);
\* start() computes the diff and calls the first repair
ListDBOk(c) ==
    /\ pc[c] = "listDB"
    /\ \E rows \in rowOrders(catalog) :
         LET dbFiles == [k \in 1..Len(rows) |-> toDBFile(rows[k])]
             r == runs[loc[c].n]
             d == findDiscrepancies(r.s3Files, dbFiles)
         IN  Proceed(c, afterDiff(d), IF afterDiff(d) = "returned" THEN 0 ELSE 1,
                 [r EXCEPT !.dbFiles = dbFiles, !.diffed = TRUE,
                           !.missingInDB = d.missingInDB,
                           !.missingInS3 = d.missingInS3])
    /\ UNCHANGED <<store, catalog, nextId, producer, events, warns, starts, faults>>
    /\ UNCHANGED <<codec, req, reqs, catalog0, deletedPubs>>

\* prisma.file.findMany rejects
ListDBFail(c) ==
    /\ pc[c] = "listDB"
    /\ faults < MaxFaults
    /\ faults' = faults + 1
    /\ Rethrow(c, "DB error")
    /\ UNCHANGED <<store, catalog, nextId, producer, events, warns, starts>>
    /\ UNCHANGED <<codec, req, reqs, catalog0, deletedPubs>>

(***************************************************************************)
(* S3DBSyncJob.handleMissingInDB                                           *)
(***************************************************************************)
\* start() not awaiting handleMissingInDB: the delete pass begins as soon
\* as the first insert has resolved
afterCreate_notAwaited(r, i) ==
    IF Len(r.missingInS3) > 0 THEN <<"delete", 1>>
    ELSE IF i < Len(r.missingInDB) THEN <<"create", i + 1>>
    ELSE <<"returned", 0>>

\* after item i of the create pass: the next item, the delete pass, the end
afterCreate(r, i) ==
    IF i < Len(r.missingInDB) THEN <<"create", i + 1>>
    ELSE IF Len(r.missingInS3) > 0 THEN <<"delete", 1>>
    ELSE <<"returned", 0>>

\* prisma.file.create resolves for item i
CreateOk(c) ==
    /\ pc[c] = "create"
    /\ LET r == runs[loc[c].n]
           data == createData(r.missingInDB[loc[c].i])
           nxt == afterCreate(r, loc[c].i)
       IN  /\ catalog' = catalog \cup {[id |-> nextId] @@ data}
           /\ nextId' = nextId + 1
           /\ Proceed(c, nxt[1], nxt[2],
                  [r EXCEPT !.inserts = Append(@, [data |-> data, ok |-> TRUE])])
    /\ UNCHANGED <<store, producer, events, warns, starts, faults>>
    /\ UNCHANGED <<codec, req, reqs, catalog0, deletedPubs>>

\* handleMissingInDB without the try/catch around the item: the rejection
\* of prisma.file.create reaches the catch of start()
CreateFail_abort(c) ==
    /\ pc[c] = "create"
    /\ faults < MaxFaults
    /\ faults' = faults + 1
    /\ Rethrow(c, "DB error")
    /\ UNCHANGED <<store, catalog, nextId, producer, events, warns, starts>>
    /\ UNCHANGED <<codec, req, reqs, catalog0, deletedPubs>>

\* prisma.file.create rejects for item i: logged, the loop goes on
CreateFail(c) ==
    /\ pc[c] = "create"
    /\ faults < MaxFaults
    /\ faults' = faults + 1
    /\ LET r == runs[loc[c].n]
           data == createData(r.missingInDB[loc[c].i])
           nxt == afterCreate(r, loc[c].i)
       IN  Proceed(c, nxt[1], nxt[2],
               [r EXCEPT !.inserts = Append(@, [data |-> data, ok |-> FALSE])])
    /\ UNCHANGED <<store, catalog, nextId, producer, events, warns, starts>>
    /\ UNCHANGED <<codec, req, reqs, catalog0, deletedPubs>>

(***************************************************************************)
(* S3DBSyncJob.handleMissingInS3 and publishFileDeletedEvent               *)
(***************************************************************************)
\* the record item j of the delete pass is about
RunItem(c) == runs[loc[c].n].missingInS3[loc[c].i]

\* after item j of the delete pass: the next item or the end
afterDelete(r, j) ==
    IF j < Len(r.missingInS3) THEN <<"delete", j + 1>> ELSE <<"returned", 0>>

\* handleMissingInS3 calling s3Service.deleteFile for the key of the row it
\* deletes
DeleteOk_deleteObject(c) ==
    /\ pc[c] = "delete"
    /\ LET r == runs[loc[c].n]
           file == r.missingInS3[loc[c].i]
       IN  /\ \E row \in catalog : row.id = file.id
           /\ catalog' = {row \in catalog : row.id # file.id}
           /\ store' = {o \in store : o.Key # getKeyFromUrl(file.url)}
           /\ Proceed(c, "publish", loc[c].i,
                  [r EXCEPT !.deletes = Append(@, [id |-> file.id, ok |-> TRUE]),
                            !.pubs = Append(@, deletedEventData(file))])
    /\ UNCHANGED <<nextId, producer, events, warns, starts, faults>>
    /\ deletedPubs' = Append(deletedPubs,
           [by |-> "job", fileId |-> RunItem(c).id])
    /\ UNCHANGED <<codec, req, reqs, catalog0>>

\* prisma.file.delete resolves for item j; publishFileDeletedEvent is called
DeleteOk(c) ==
    /\ pc[c] = "delete"
    /\ LET r == runs[loc[c].n]
           file == r.missingInS3[loc[c].i]
       IN  /\ \E row \in catalog : row.id = file.id
           /\ catalog' = {row \in catalog : row.id # file.id}
           /\ Proceed(c, "publish", loc[c].i,
                  [r EXCEPT !.deletes = Append(@, [id |-> file.id, ok |-> TRUE]),
                            !.pubs = Append(@, deletedEventData(file))])
    /\ UNCHANGED <<store, nextId, producer, events, warns, starts, faults>>
    /\ deletedPubs' = Append(deletedPubs,
           [by |-> "job", fileId |-> RunItem(c).id])
    /\ UNCHANGED <<codec, req, reqs, catalog0>>

\* handleMissingInS3 publishing in a finally: the event is published also
\* when prisma.file.delete has rejected
DeleteFail_publish(c) ==
    /\ pc[c] = "delete"
    /\ LET r == runs[loc[c].n]
           file == r.missingInS3[loc[c].i]
           present == \E row \in catalog : row.id = file.id
       IN  /\ present => faults < MaxFaults
           /\ faults' = IF present THEN faults + 1 ELSE faults
           /\ Proceed(c, "publish", loc[c].i,
                  [r EXCEPT !.deletes = Append(@, [id |-> file.id, ok |-> FALSE]),
                            !.pubs = Append(@, deletedEventData(file))])
    /\ UNCHANGED <<store, catalog, nextId, producer, events, warns, starts>>
    /\ UNCHANGED <<codec, req, reqs, catalog0, deletedPubs>>

\* prisma.file.delete rejects for item j (always so when the row is gone):
\* logged, no publication, the loop goes on
DeleteFail(c) ==
    /\ pc[c] = "delete"
    /\ LET r == runs[loc[c].n]
           file == r.missingInS3[loc[c].i]
           nxt == afterDelete(r, loc[c].i)
           present == \E row \in catalog : row.id = file.id
       IN  /\ present => faults < MaxFaults
           /\ faults' = IF present THEN faults + 1 ELSE faults
           /\ Proceed(c, nxt[1], nxt[2],
                  [r EXCEPT !.deletes = Append(@, [id |-> file.id, ok |-> FALSE])])
    /\ UNCHANGED <<store, catalog, nextId, producer, events, warns, starts>>
    /\ UNCHANGED <<codec, req, reqs, catalog0, deletedPubs>>

\* publishFileDeletedEvent waiting, when there is no producer, for an
\* initialisation that never comes: the call never returns
PublishSkipped_hang(c) ==
    /\ pc[c] = "publish"
    /\ ~producer
    /\ UNCHANGED vars

\* publishFileDeletedEvent: producer not initialised, publication skipped
PublishSkipped(c) ==
    /\ pc[c] = "publish"
    /\ ~producer
    /\ LET r == runs[loc[c].n]
           nxt == afterDelete(r, loc[c].i)
       IN  Proceed(c, nxt[1], nxt[2], r)
    /\ UNCHANGED <<store, catalog, nextId, producer, events, warns, starts, faults>>
    /\ UNCHANGED <<codec, req, reqs, catalog0, deletedPubs>>

\* publishFileDeletedEvent sending the message a second time after the
\* first send has resolved
PublishSent_twice(c) ==
    /\ pc[c] = "publish"
    /\ producer
    /\ LET r == runs[loc[c].n]
           nxt == afterDelete(r, loc[c].i)
           msg == [type |-> "file.deleted", data |-> r.pubs[Len(r.pubs)]]
       IN  /\ events' = Append(Append(events, msg), msg)
           /\ Proceed(c, nxt[1], nxt[2], r)
    /\ UNCHANGED <<store, catalog, nextId, producer, warns, starts, faults>>
    /\ UNCHANGED <<codec, req, reqs, catalog0, deletedPubs>>

\* publishFileDeletedEvent: producer.send resolves
PublishSent(c) ==
    /\ pc[c] = "publish"
    /\ producer
    /\ LET r == runs[loc[c].n]
           nxt == afterDelete(r, loc[c].i)
       IN  /\ events' = Append(events, [type |-> "file.deleted",
                                        data |-> r.pubs[Len(r.pubs)]])
           /\ Proceed(c, nxt[1], nxt[2], r)
    /\ UNCHANGED <<store, catalog, nextId, producer, warns, starts, faults>>
    /\ UNCHANGED <<codec, req, reqs, catalog0, deletedPubs>>

\* a failed publication compensated by putting the deleted record back
PublishFailed_restore(c) ==
    /\ pc[c] = "publish"
    /\ faults < MaxFaults
    /\ faults' = faults + 1
    /\ producer
    /\ LET r == runs[loc[c].n]
           file == r.missingInS3[loc[c].i]
           nxt == afterDelete(r, loc[c].i)
       IN  /\ catalog' = catalog \cup
                  {[id |-> file.id, name |-> file.name,
                    originalName |-> file.name, url |-> file.url,
                    size |-> file.size, mimeType |-> file.mimeType,
                    uploadedBy |-> SystemSync]}
           /\ Proceed(c, nxt[1], nxt[2], r)
    /\ UNCHANGED <<store, nextId, producer, events, warns, starts>>
    /\ UNCHANGED <<codec, req, reqs, catalog0, deletedPubs>>

\* publishFileDeletedEvent: producer.send rejects, caught inside the notifier
PublishFailed(c) ==
    /\ pc[c] = "publish"
    /\ faults < MaxFaults
    /\ faults' = faults + 1
    /\ producer
    /\ LET r == runs[loc[c].n]
           nxt == afterDelete(r, loc[c].i)
       IN  Proceed(c, nxt[1], nxt[2], r)
    /\ UNCHANGED <<store, catalog, nextId, producer, events, warns, starts>>
    /\ UNCHANGED <<codec, req, reqs, catalog0, deletedPubs>>

Next ==
    \E c \in Callers :
        \/ Start(c)
        \/ ListS3Ok(c)
        \/ ListS3Fail(c)
        \/ ListDBOk(c)
        \/ ListDBFail(c)
        \/ CreateOk(c)
        \/ CreateFail(c)
        \/ DeleteOk(c)
        \/ DeleteFail(c)
        \/ PublishSkipped(c)
        \/ PublishSent(c)
        \/ PublishFailed(c)

Spec == Init /\ [][Next]_vars

(***************************************************************************)
(* Run guard                                                               *)
(***************************************************************************)
Running(n) == runs[n].outcome = "running"

Quiet == \A c \in Callers : ~InFlight(c)

\* C1: single-flight. Whatever the number and interleaving of start()
\* invocations on the job, at most one of them is inside the pipeline
\* (suspended on a store, table or event-bus call), and at most one admitted
\* run is unfinished.
C1_SingleFlight ==
    /\ Cardinality({c \in Callers : InFlight(c)}) <= 1
    /\ Cardinality({n \in 1..Len(runs) : Running(n)}) <= 1

\* a trigger has fired while the run of the other trigger is suspended on a
\* call, and has been turned away
C1_Witness ==
    \E c, d \in Callers :
        c # d /\ pc[c] \in {"listDB", "create", "delete", "publish"}
              /\ pc[d] = "skipped"

\* C2: a start() invocation arriving while a run is in flight is a no-op.
\* The step of such an invocation ends it at once (position "skipped"),
\* adds exactly one warning, issues no listing, read, insert, delete or
\* publication (the call log of every run is unchanged, and so are the
\* store, the table and the topic), leaves the flag set and leaves the run
\* in flight where it was.
C2_RejectedStartIsNoOp ==
    [][(isRunning.syncJob /\ starts' = starts + 1) =>
          /\ isRunning'.syncJob
          /\ warns' = warns + 1
          /\ runs' = runs
          /\ store' = store /\ catalog' = catalog /\ nextId' = nextId
          /\ events' = events
          /\ \E c \in Callers : ~InFlight(c) /\ pc'[c] = "skipped"
          /\ \A c \in Callers : InFlight(c) => pc'[c] = pc[c] /\ loc'[c] = loc[c]
      ]_vars

\* one invocation has been rejected while the only admitted run is unfinished
C2_Witness ==
    /\ warns = 1 /\ isRunning.syncJob
    /\ Len(runs) = 1 /\ Running(1)
    /\ \E c \in Callers : pc[c] = "skipped"

\* C3: the guard is released on every exit path of an admitted run. When no
\* invocation is in flight the flag is clear, whether the last run returned
\* or raised; the step that ends a run clears it; a start() invoked then is
\* admitted (it is at its store listing, with a new run logged); and a run
\* that follows a raised run and returns has read both sides once, computed
\* the diff of what it read and attempted every repair of that diff.
C3_GuardReleased ==
    /\ [](Quiet => ~isRunning.syncJob)
    /\ [](\A n \in 2..Len(runs) :
            (runs[n - 1].outcome = "raised" /\ runs[n].outcome = "returned") =>
                /\ runs[n].listCalls = 1 /\ runs[n].readCalls = 1
                /\ runs[n].s3Files = listFiles(store)
                /\ Len(runs[n].inserts) = Len(runs[n].missingInDB)
                /\ Len(runs[n].deletes) = Len(runs[n].missingInS3)
                /\ \A f \in Range(runs[n].s3Files) :
                       (\A d \in Range(runs[n].dbFiles) :
                            getKeyFromUrl(d.url) # f.id)
                       => \E k \in 1..Len(runs[n].inserts) :
                              runs[n].inserts[k].data.url = f.url
                /\ \A d \in Range(runs[n].dbFiles) :
                       (\A f \in Range(runs[n].s3Files) :
                            getKeyFromUrl(d.url) # f.id)
                       => \E k \in 1..Len(runs[n].deletes) :
                              runs[n].deletes[k].id = d.id)
    /\ [][/\ \A c \in Callers :
                (InFlight(c) /\ pc'[c] \in {"returned", "raised"})
                    => ~isRunning'.syncJob
          /\ (Quiet /\ starts' = starts + 1) =>
                /\ Len(runs') = Len(runs) + 1
                /\ \E c \in Callers : pc'[c] = "listS3" /\ loc'[c].n = Len(runs')
         ]_vars

\* a run raised on a failed read, and the next run was admitted, repaired a
\* discrepancy and returned
C3_Witness ==
    /\ Len(runs) = 2
    /\ runs[1].outcome = "raised" /\ runs[2].outcome = "returned"
    /\ Len(runs[2].inserts) + Len(runs[2].deletes) > 0
    /\ ~isRunning.syncJob

C5_FailedReadMutatesNothing ==
    /\ [](\A n \in 1..Len(runs) :
            runs[n].failed # "none" =>
                /\ runs[n].inserts = <<>>
                /\ runs[n].deletes = <<>>
                /\ runs[n].pubs = <<>>
                /\ runs[n].missingInDB = <<>>
                /\ runs[n].missingInS3 = <<>>)
    /\ [][\A c \in Callers :
            (pc[c] \in {"listS3", "listDB"} /\ faults' = faults + 1
                                           /\ pc'[c] # pc[c])
            => (catalog' = catalog /\ events' = events /\ nextId' = nextId)
         ]_vars

\* the store listing of a run failed while the table held rows, none of
\* which was deleted
C5_Witness ==
    \E n \in 1..Len(runs) :
        /\ runs[n].failed = "S3 error"
        /\ runs[n].outcome = "raised"
        /\ catalog # {}
        /\ Cardinality(catalog) = Cardinality(InitialRows)

(***************************************************************************)
(* Diff and repairs                                                        *)
(***************************************************************************)
\* the comparison key of a table row and the key sets of two snapshots
NormalizedKey(dbFile) == getKeyFromUrl(dbFile.url)

StoreKeys(r) == {f.id : f \in Range(r.s3Files)}

CatalogKeys(r) == {NormalizedKey(d) : d \in Range(r.dbFiles)}

\* C6: no discrepancy, no mutation. A run whose two snapshots have the same
\* set of NormalizedKeys returns with no insert, no delete and no
\* publication issued; and every step of a run that changes the table or
\* the topic belongs to a run whose snapshots differ in their key sets.
C6_NoDiscrepancyNoMutation ==
    /\ [](\A n \in 1..Len(runs) :
            (runs[n].diffed /\ StoreKeys(runs[n]) = CatalogKeys(runs[n])) =>
                /\ runs[n].inserts = <<>>
                /\ runs[n].deletes = <<>>
                /\ runs[n].pubs = <<>>
                /\ runs[n].outcome = "returned")
    /\ [][\A c \in Callers :
            (/\ InFlight(c)
             /\ pc'[c] # pc[c] \/ loc'[c] # loc[c]
             /\ catalog' # catalog \/ events' # events) =>
                /\ Running(loc[c].n) /\ runs[loc[c].n].diffed
                /\ StoreKeys(runs[loc[c].n]) # CatalogKeys(runs[loc[c].n])
         ]_vars

\* a run found the same non-empty key set on both sides, two rows sharing
\* one key among them
C6_Witness ==
    \E n \in 1..Len(runs) :
        /\ runs[n].diffed /\ runs[n].outcome = "returned"
        /\ StoreKeys(runs[n]) = CatalogKeys(runs[n])
        /\ Len(runs[n].dbFiles) > Len(runs[n].s3Files)
        /\ Len(runs[n].s3Files) > 0

\* the insert calls of a run for the listed file f
InsertsFor(r, f) ==
    {k \in 1..Len(r.inserts) :
        r.inserts[k].data.url = endpoint \o "/" \o bucket \o "/" \o f.id}

Orphans(r) == {f \in Range(r.s3Files) : f.id \notin CatalogKeys(r)}

Stale(r) == {d \in Range(r.dbFiles) : NormalizedKey(d) \notin StoreKeys(r)}

DeletesOf(r, id) == {k \in 1..Len(r.deletes) : r.deletes[k].id = id}

PubsOf(r, id) == {k \in 1..Len(r.pubs) : r.pubs[k].fileId = id}

\* C8 as stated: in a run that has returned, every row of the snapshot whose
\* NormalizedKey is absent from the store listing has been deleted by its id
\* and has exactly one deletion-event publication.
C8_Original ==
    \A n \in 1..Len(runs) :
        runs[n].outcome = "returned" =>
            \A d \in Stale(runs[n]) :
                /\ \E k \in DeletesOf(runs[n], d.id) : runs[n].deletes[k].ok
                /\ Cardinality(PubsOf(runs[n], d.id)) = 1

\* C8 (amended): delete-missing-in-store. For every row of the snapshot
\* whose NormalizedKey is absent from the store listing the run issues
\* exactly one delete by its id, and none for any other row; when that
\* delete succeeds the row is removed from the table and the run makes
\* exactly one publication carrying the row's id, its name and
\* 'system-sync'; when the delete fails the row stays and no publication is
\* made for it.
C8_DeleteMissingInStore ==
    /\ [](\A n \in 1..Len(runs) :
            LET r == runs[n] IN
            /\ \A d \in Stale(r) :
                   /\ Cardinality(DeletesOf(r, d.id)) <= 1
                   /\ r.outcome = "returned" => Cardinality(DeletesOf(r, d.id)) = 1
                   /\ Cardinality(PubsOf(r, d.id)) =
                          Cardinality({k \in DeletesOf(r, d.id) : r.deletes[k].ok})
                   /\ \A k \in PubsOf(r, d.id) :
                          /\ r.pubs[k].fileName = d.name
                          /\ r.pubs[k].deletedBy = "system-sync"
            /\ \A k \in 1..Len(r.deletes) :
                   \E d \in Stale(r) : d.id = r.deletes[k].id
            /\ \A k \in 1..Len(r.pubs) :
                   \E d \in Stale(r) : d.id = r.pubs[k].fileId)
    /\ [][\A c \in Callers :
            (pc[c] = "delete" /\ (pc'[c] # pc[c] \/ loc'[c] # loc[c])) =>
                LET r == runs'[loc[c].n]
                    last == r.deletes[Len(r.deletes)]
                IN  IF last.ok
                    THEN /\ \E row \in catalog : row.id = last.id
                         /\ catalog' = {row \in catalog : row.id # last.id}
                    ELSE catalog' = catalog /\ r.pubs = runs[loc[c].n].pubs
         ]_vars

\* a run has returned with one stale row deleted and published for, and
\* another stale row whose delete failed
C8_Witness ==
    \E n \in 1..Len(runs) :
        /\ runs[n].outcome = "returned"
        /\ Cardinality(Stale(runs[n])) >= 2
        /\ \E k \in 1..Len(runs[n].deletes) : runs[n].deletes[k].ok
        /\ \E k \in 1..Len(runs[n].deletes) : ~runs[n].deletes[k].ok
        /\ Len(runs[n].pubs) = Len(runs[n].deletes) - 1

NoMutation(r) == r.inserts = <<>> /\ r.deletes = <<>> /\ r.pubs = <<>>

\* a run that returned normally with every insert and delete succeeding
Clean(r) ==
    /\ r.outcome = "returned"
    /\ \A k \in 1..Len(r.inserts) : r.inserts[k].ok
    /\ \A k \in 1..Len(r.deletes) : r.deletes[k].ok

C10_DiffCorrect ==
    \A n \in 1..Len(runs) :
        runs[n].diffed =>
            LET r == runs[n]
                inDB == r.missingInDB
                inS3 == r.missingInS3
            IN  /\ Range(inDB) =
                       {f \in Range(r.s3Files) :
                           \A d \in Range(r.dbFiles) : NormalizedKey(d) # f.id}
                /\ Range(inS3) =
                       {d \in Range(r.dbFiles) :
                           \A f \in Range(r.s3Files) : f.id # NormalizedKey(d)}
                /\ Len(inDB) = Cardinality(Range(inDB))
                /\ Len(inS3) = Cardinality(Range(inS3))
                /\ \A f \in Range(r.s3Files) : \A d \in Range(r.dbFiles) :
                       NormalizedKey(d) = f.id =>
                           f \notin Range(inDB) /\ d \notin Range(inS3)
                /\ {f.id : f \in Range(inDB)}
                       \cap {NormalizedKey(d) : d \in Range(inS3)} = {}

\* a diff with an object missing in the table, a row missing in the store
\* and an object matched by a row
C10_Witness ==
    \E n \in 1..Len(runs) :
        /\ runs[n].diffed
        /\ Len(runs[n].missingInDB) > 0
        /\ Len(runs[n].missingInS3) > 0
        /\ StoreKeys(runs[n]) \cap CatalogKeys(runs[n]) # {}

(***************************************************************************)
(* Failure of single items                                                 *)
(***************************************************************************)
\* the run of caller c and the number of the item its call is about
RunOf(c) == runs[loc[c].n]

\* C11: per-item fault isolation. Whatever inserts and deletes fail, a run
\* that has computed its diff never raises; while it is in the create pass
\* at item i it has issued the inserts of the items before i and no delete,
\* while it is in the delete pass at item j it has issued one insert for
\* every item of missingInDB and the deletes of the items before j; and
\* when it has returned, its insert calls are the items of missingInDB,
\* once each and in order, and its delete calls the items of missingInS3,
\* once each and in order.
C11_PerItemIsolation ==
    /\ \A n \in 1..Len(runs) :
         LET r == runs[n]
         IN  /\ r.diffed => r.outcome # "raised" /\ r.raised = "none"
             /\ r.outcome = "raised" => r.inserts = <<>> /\ r.deletes = <<>>
             /\ Len(r.inserts) <= Len(r.missingInDB)
             /\ Len(r.deletes) <= Len(r.missingInS3)
             /\ \A k \in 1..Len(r.inserts) :
                    r.inserts[k].data = createData(r.missingInDB[k])
             /\ \A k \in 1..Len(r.deletes) :
                    r.deletes[k].id = r.missingInS3[k].id
             /\ r.outcome = "returned" =>
                    /\ Len(r.inserts) = Len(r.missingInDB)
                    /\ Len(r.deletes) = Len(r.missingInS3)
    /\ \A c \in Callers :
         /\ pc[c] = "create" =>
                /\ Len(RunOf(c).inserts) = loc[c].i - 1
                /\ RunOf(c).deletes = <<>>
         /\ pc[c] = "delete" =>
                /\ Len(RunOf(c).inserts) = Len(RunOf(c).missingInDB)
                /\ Len(RunOf(c).deletes) = loc[c].i - 1
         /\ pc[c] = "publish" =>
                /\ Len(RunOf(c).inserts) = Len(RunOf(c).missingInDB)
                /\ Len(RunOf(c).deletes) = loc[c].i

\* the first of two inserts of a run failed; the run went on to the second
\* insert and to the delete pass and returned
C11_Witness ==
    \E n \in 1..Len(runs) :
        /\ runs[n].outcome = "returned"
        /\ Len(runs[n].inserts) = 2
        /\ ~runs[n].inserts[1].ok /\ runs[n].inserts[2].ok
        /\ Len(runs[n].deletes) > 0

\* C12: delete and notify are not transactional. A record whose delete has
\* succeeded is absent from the table ever after, whatever became of its
\* publication; the step that ends a publication (delivered, skipped or
\* failed) leaves the table as it is, does not make the run raise and takes
\* the run to the next item of missingInS3, or to its normal end after the
\* last one.
C12_DeleteNotTransactional ==
    /\ [](\A n \in 1..Len(runs) : \A k \in 1..Len(runs[n].deletes) :
            runs[n].deletes[k].ok =>
                \A row \in catalog : row.id # runs[n].deletes[k].id)
    /\ [][\A c \in Callers :
            (pc[c] = "publish" /\ (pc'[c] # pc[c] \/ loc'[c] # loc[c])) =>
                /\ catalog' = catalog
                /\ runs'[loc[c].n].raised = "none"
                /\ IF loc[c].i < Len(RunOf(c).missingInS3)
                   THEN pc'[c] = "delete" /\ loc'[c].i = loc[c].i + 1
                   ELSE pc'[c] = "returned"
         ]_vars

\* the only run deleted two records; the publication for one of them
\* failed on an initialised producer, and the run returned
C12_Witness ==
    /\ Len(runs) = 1 /\ Clean(runs[1]) /\ producer
    /\ Len(runs[1].deletes) = 2
    /\ Len(runs[1].pubs) = 2
    /\ Len(events) = 1
    /\ faults = 1
    /\ \A row \in catalog : \A k \in 1..2 : row.id # runs[1].deletes[k].id

(***************************************************************************)
(* publishFileDeletedEvent                                                 *)
(***************************************************************************)
\* the number of publishFileDeletedEvent calls made so far
RECURSIVE PubCalls(_)
PubCalls(n) == IF n = 0 THEN 0 ELSE Len(runs[n].pubs) + PubCalls(n - 1)

\* C13: the notifier never propagates a failure. The step in which a call
\* of publishFileDeletedEvent ends hands control back to the delete loop
\* with no error recorded for the run, whether the producer is missing, the
\* send failed or the send succeeded; it delivers nothing when the producer
\* is not initialised, and otherwise either nothing or exactly the one
\* 'file.deleted' message of that call; so the topic never holds more
\* messages than calls were made.
C13_NotifierNeverThrows ==
    /\ [](Len(events) <= PubCalls(Len(runs)))
    /\ [][\A c \in Callers :
            (pc[c] = "publish" /\ (pc'[c] # pc[c] \/ loc'[c] # loc[c])) =>
                /\ pc'[c] \in {"delete", "returned"}
                /\ runs'[loc[c].n].failed = "none"
                /\ runs'[loc[c].n].outcome # "raised"
                /\ ~producer => events' = events
                /\ \/ events' = events
                   \/ events' = Append(events,
                          [type |-> "file.deleted",
                           data |-> RunOf(c).pubs[Len(RunOf(c).pubs)]])
         ]_vars

\* two publications were called without an initialised producer: nothing
\* was delivered and the run returned
C13_Witness ==
    \E n \in 1..Len(runs) :
        /\ ~producer
        /\ runs[n].outcome = "returned"
        /\ Len(runs[n].pubs) = 2
        /\ events = <<>>

(***************************************************************************)
(* Events for the changes of a run (README, S3<->DB Synchronization)       *)
(***************************************************************************)
\* C14: the job publishes an event for any change it makes. In a run that
\* has returned, every insert that succeeded has a message about the
\* inserted file on the topic, and every delete that succeeded has a
\* 'file.deleted' message carrying the id of the deleted record.
C14_EveryChangePublished ==
    \A n \in 1..Len(runs) :
        runs[n].outcome = "returned" =>
            /\ \A k \in 1..Len(runs[n].inserts) :
                   runs[n].inserts[k].ok =>
                       \E e \in Range(events) :
                           /\ e.type # "file.deleted"
                           /\ e.data.fileName = runs[n].inserts[k].data.name
            /\ \A k \in 1..Len(runs[n].deletes) :
                   runs[n].deletes[k].ok =>
                       \E e \in Range(events) :
                           /\ e.type = "file.deleted"
                           /\ e.data.fileId = runs[n].deletes[k].id

(***************************************************************************)
(* Completeness of the store snapshot                                      *)
(***************************************************************************)
\* the keys of the objects of st under the prefix that are not folders
FileKeys(st) ==
    {o.Key : o \in {x \in st : /\ startsWith(x.Key, ListPrefix)
                               /\ ~endsWith(x.Key, "/")}}

\* C15: store snapshot completeness. The listing a run works on holds every
\* object of the bucket under 'files/' whose key does not end in '/',
\* however many objects the bucket holds, and nothing else.
C15_SnapshotComplete ==
    \A n \in 1..Len(runs) :
        runs[n].readCalls = 1 => StoreKeys(runs[n]) = FileKeys(store)

(***************************************************************************)
(* Key codec: getKeyFromUrl called on urls of every shape                  *)
(***************************************************************************)
\* what a url may start with, and what may follow
CodecPrefixes ==
    { endpoint \o "/" \o bucket \o "/",
      endpoint \o "/" \o bucket,
      endpoint \o "/",
      endpoint,
      "https://localhost:9000/files/",
      "http://minio:9000/files/",
      "x" \o endpoint \o "/" \o bucket \o "/",
      "" }

CodecKeys ==
    { "files/image/1-a-b.JPG", "files/text/notes", "files/", "/", "",
      "a b.txt", "files", endpoint \o "/" \o bucket \o "/a" }

CodecUrls == {p \o k : p \in CodecPrefixes, k \in CodecKeys}

CodecInit ==
    /\ store = {}
    /\ catalog = {}
    /\ nextId = FirstNewId
    /\ producer = FALSE
    /\ events = <<>>
    /\ isRunning = [j \in Jobs |-> FALSE]
    /\ pc = [c \in AllCallers |-> "idle"]
    /\ loc = [c \in AllCallers |-> NoLoc]
    /\ runs = <<>>
    /\ warns = 0
    /\ starts = 0
    /\ faults = 0
    /\ req = NoReq
    /\ reqs = 0
    /\ catalog0 = {}
    /\ deletedPubs = <<>>
    /\ codec \in {[NoCall EXCEPT !.url = u] : u \in CodecUrls}

\* getKeyFromUrl(url) returns
Decode ==
    /\ ~codec.returned
    /\ codec' = [codec EXCEPT !.key = getKeyFromUrl(codec.url),
                              !.returned = TRUE]
    /\ UNCHANGED <<store, catalog, nextId, producer, events, isRunning, pc,
                   loc, runs, warns, starts, faults, req, reqs, catalog0,
                   deletedPubs>>

\* the next argument: the url a writer of rows builds for a storage key k
\* (fileRouter.upload, handleMissingInDB)
Encode ==
    /\ codec.returned
    /\ \E k \in CodecKeys :
         codec' = [url |-> endpoint \o "/" \o bucket \o "/" \o k, key |-> "",
                   from |-> <<k>>, returned |-> FALSE]
    /\ UNCHANGED <<store, catalog, nextId, producer, events, isRunning, pc,
                   loc, runs, warns, starts, faults, req, reqs, catalog0,
                   deletedPubs>>

\* the next argument: the url of an entry of the store listing, whose id is
\* the key on the store side of the diff
EncodeListed ==
    /\ codec.returned
    /\ \E obj \in Range(BucketObjects) :
         codec' = [url |-> toFileType(obj).url, key |-> "",
                   from |-> <<toFileType(obj).id>>, returned |-> FALSE]
    /\ UNCHANGED <<store, catalog, nextId, producer, events, isRunning, pc,
                   loc, runs, warns, starts, faults, req, reqs, catalog0,
                   deletedPubs>>

CodecNext == Decode \/ Encode \/ EncodeListed

CodecSpec == CodecInit /\ [][CodecNext]_vars

\* C16: key codec. getKeyFromUrl returns a string for every url; for a url
\* that starts with endpoint "/" bucket "/" the result is what follows that
\* prefix, so that prefix and result make up the url again; for every other
\* url the result is the url itself; and for a url built from a storage key
\* (by a writer of rows, or by the store listing) the result is that key.
C16_KeyCodec ==
    codec.returned =>
        LET prefix == endpoint \o "/" \o bucket \o "/"
            url == codec.url
        IN  /\ codec.key \in STRING
            /\ IF Len(url) >= Len(prefix) /\ SubSeq(url, 1, Len(prefix)) = prefix
               THEN prefix \o codec.key = url
               ELSE codec.key = url
            /\ codec.from # <<>> => codec.key = codec.from[1]

\* getKeyFromUrl gave back the key of a listed object from its url
C16_Witness ==
    /\ codec.returned
    /\ codec.from = <<"files/image/1-a-b.JPG">>
    /\ codec.url = "http://localhost:9000/files/files/image/1-a-b.JPG"
    /\ codec.key = "files/image/1-a-b.JPG"

(***************************************************************************)
(* Extent of the single-flight flag                                        *)
(***************************************************************************)
\* C17: the flag covers every call of a run. In every reachable state in
\* which a start() invocation is suspended on a store listing, a table
\* read, an insert, a delete or a publication, isRunning is set; it is set
\* in the step that issues the first call and stays set across every step
\* that leaves a call of the run outstanding.
C17_FlagCoversRun ==
    /\ [](\A c \in Callers : InFlight(c) => isRunning.syncJob)
    /\ [][\A c \in Callers :
            /\ (~InFlight(c) /\ InFlight(c)') => (pc'[c] = "listS3" /\ isRunning'.syncJob)
            /\ (InFlight(c) /\ ~isRunning'.syncJob) => pc'[c] \in {"returned", "raised"}
         ]_vars

\* the last publication of a run with two deletes is outstanding, the flag
\* is set and a second trigger has been turned away meanwhile
C17_Witness ==
    \E c \in Callers :
        /\ pc[c] = "publish"
        /\ loc[c].i = 2 /\ Len(RunOf(c).missingInS3) = 2
        /\ isRunning.syncJob
        /\ warns = 1

(***************************************************************************)
(* The tRPC procedures that change the store and the table while the job   *)
(* runs: fileRouter.upload and fileRouter.delete (one request at a time)   *)
(***************************************************************************)
\* new URL(url).pathname: the url from the first '/' after the authority,
\* with the blanks percent-encoded
RECURSIVE encodeBlanks(_)
encodeBlanks(s) ==
    IF s = "" THEN ""
    ELSE (IF SubSeq(s, 1, 1) = " " THEN "%20" ELSE SubSeq(s, 1, 1))
             \o encodeBlanks(slice(s, 1))

pathname(url) ==
    LET authority == indexFrom(url, ":", 1) + 3
        root == indexFrom(url, "/", authority)
    IN  IF root = 0 THEN "/" ELSE encodeBlanks(slice(url, root - 1))

\* s.split('/').filter(part => part.length > 0)
RECURSIVE parts(_)
parts(s) ==
    IF s = "" THEN <<>>
    ELSE LET cut == indexFrom(s, "/", 1)
         IN  IF cut = 0 THEN <<s>>
             ELSE IF cut = 1 THEN parts(slice(s, 1))
             ELSE <<SubSeq(s, 1, cut - 1)>> \o parts(slice(s, cut))

\* seq.join('/')
RECURSIVE join(_)
join(seq) ==
    IF Len(seq) = 0 THEN ""
    ELSE IF Len(seq) = 1 THEN seq[1]
    ELSE seq[1] \o "/" \o join(Tail(seq))

\* services/s3.ts extractKeyFromUrl: the path without its first segment
extractKeyFromUrl(url) ==
    LET pathParts == parts(pathname(url))
    IN  IF Len(pathParts) = 0 THEN "" ELSE join(Tail(pathParts))

\* new URL(url) throws on a string that is no absolute url
validUrl(url) == startsWith(url, "http://") \/ startsWith(url, "https://")

\* fileRouter.upload up to its first await: s3Service.uploadFile is called
UploadStart ==
    /\ req.op = "none"
    /\ reqs < MaxRequests
    /\ \E input \in UploadInputs :
         LET key == uploadKey(input, reqs + 1)
         IN  /\ \A o \in store : o.Key # key
             /\ \A row \in catalog : getKeyFromUrl(row.url) # key
             /\ req' = [op |-> "upload", pc |-> "put", input |-> input,
                        key |-> key]
    /\ reqs' = reqs + 1
    /\ UNCHANGED <<store, catalog, nextId, producer, events, isRunning, pc,
                   loc, runs, warns, starts, faults, catalog0, codec,
                   deletedPubs>>

\* PutObject resolves; the procedure calls prisma.file.create
UploadPutOk ==
    /\ req.op = "upload" /\ req.pc = "put"
    /\ store' = {o \in store : o.Key # req.key}
                    \cup {[Key |-> req.key, Size |-> req.input.size]}
    /\ req' = [req EXCEPT !.pc = "create"]
    /\ UNCHANGED <<catalog, nextId, producer, events, isRunning, pc, loc,
                   runs, warns, starts, faults, reqs, catalog0, codec,
                   deletedPubs>>

\* prisma.file.create resolves; the procedure calls publishFileUploadedEvent
UploadCreateOk ==
    /\ req.op = "upload" /\ req.pc = "create"
    /\ LET fileRecord ==
               [id |-> nextId, name |-> req.input.name,
                originalName |-> req.input.originalName,
                url |-> endpoint \o "/" \o bucket \o "/" \o req.key,
                size |-> req.input.size, mimeType |-> req.input.mimeType,
                uploadedBy |-> req.input.uploadedBy]
       IN  /\ catalog' = catalog \cup {fileRecord}
           /\ req' = [op |-> "upload", pc |-> "publish",
                      event |-> [type |-> "file.uploaded",
                                 data |-> [fileId |-> fileRecord.id,
                                           fileName |-> fileRecord.name,
                                           fileSize |-> fileRecord.size,
                                           mimeType |-> fileRecord.mimeType,
                                           uploadedBy |-> fileRecord.uploadedBy,
                                           url |-> fileRecord.url]]]
    /\ nextId' = nextId + 1
    /\ UNCHANGED <<store, producer, events, isRunning, pc, loc, runs, warns,
                   starts, faults, reqs, catalog0, codec,
                   deletedPubs>>

\* fileRouter.delete up to its first await: prisma.file.findUnique is called
\* with the id of a record that exists or has existed
DeleteStart ==
    /\ req.op = "none"
    /\ reqs < MaxRequests
    /\ \E id \in {row.id : row \in catalog0} \cup FirstNewId..(nextId - 1),
          deletedBy \in Deleters :
         req' = [op |-> "delete", pc |-> "find", id |-> id,
                 deletedBy |-> deletedBy]
    /\ reqs' = reqs + 1
    /\ UNCHANGED <<store, catalog, nextId, producer, events, isRunning, pc,
                   loc, runs, warns, starts, faults, catalog0, codec,
                   deletedPubs>>

\* findUnique resolves: FILE_NOT_FOUND, or the record, whose key is
\* extracted and handed to s3Service.deleteFile
DeleteFound ==
    /\ req.op = "delete" /\ req.pc = "find"
    /\ IF \E row \in catalog : row.id = req.id
       THEN LET fileRecord == CHOOSE row \in catalog : row.id = req.id
            IN  /\ validUrl(fileRecord.url)
                /\ req' = [op |-> "delete", pc |-> "deleteFile",
                           id |-> req.id, deletedBy |-> req.deletedBy,
                           fileRecord |-> fileRecord,
                           s3Key |-> extractKeyFromUrl(fileRecord.url)]
       ELSE req' = NoReq
    /\ UNCHANGED <<store, catalog, nextId, producer, events, isRunning, pc,
                   loc, runs, warns, starts, faults, reqs, catalog0, codec,
                   deletedPubs>>

\* DeleteObject resolves (also when no object has the key); the procedure
\* calls prisma.file.delete
DeleteFileOk ==
    /\ req.op = "delete" /\ req.pc = "deleteFile"
    /\ store' = {o \in store : o.Key # req.s3Key}
    /\ req' = [req EXCEPT !.pc = "deleteRow"]
    /\ UNCHANGED <<catalog, nextId, producer, events, isRunning, pc, loc,
                   runs, warns, starts, faults, reqs, catalog0, codec,
                   deletedPubs>>

\* fileRouter.delete deleting with deleteMany, which resolves when the row
\* is gone already
DeleteRowOk_deleteMany ==
    /\ req.op = "delete" /\ req.pc = "deleteRow"
    /\ catalog' = {row \in catalog : row.id # req.id}
    /\ req' = [op |-> "delete", pc |-> "publish",
               event |-> [type |-> "file.deleted",
                          data |-> [fileId |-> req.fileRecord.id,
                                    fileName |-> req.fileRecord.name,
                                    deletedBy |-> req.deletedBy]]]
    /\ UNCHANGED <<store, nextId, producer, events, isRunning, pc, loc, runs,
                   warns, starts, faults, reqs, catalog0, codec>>
    /\ deletedPubs' = Append(deletedPubs,
           [by |-> "api", fileId |-> req.fileRecord.id])

\* prisma.file.delete resolves; the procedure calls publishFileDeletedEvent
DeleteRowOk ==
    /\ req.op = "delete" /\ req.pc = "deleteRow"
    /\ \E row \in catalog : row.id = req.id
    /\ catalog' = {row \in catalog : row.id # req.id}
    /\ req' = [op |-> "delete", pc |-> "publish",
               event |-> [type |-> "file.deleted",
                          data |-> [fileId |-> req.fileRecord.id,
                                    fileName |-> req.fileRecord.name,
                                    deletedBy |-> req.deletedBy]]]
    /\ UNCHANGED <<store, nextId, producer, events, isRunning, pc, loc, runs,
                   warns, starts, faults, reqs, catalog0, codec>>
    /\ deletedPubs' = Append(deletedPubs,
           [by |-> "api", fileId |-> req.fileRecord.id])

\* the awaited store or table call of the request rejects (prisma.file.delete
\* always does when the row is gone, new URL when the url is malformed): the
\* catch of the procedure answers with an error object
RequestFails ==
    /\ req.op # "none" /\ req.pc # "publish"
    /\ LET forced ==
               \/ req.pc = "deleteRow" /\ \A row \in catalog : row.id # req.id
               \/ /\ req.pc = "find"
                  /\ \E row \in catalog : row.id = req.id /\ ~validUrl(row.url)
       IN  /\ ~forced => faults < MaxFaults
           /\ faults' = IF forced THEN faults ELSE faults + 1
    /\ req' = NoReq
    /\ UNCHANGED <<store, catalog, nextId, producer, events, isRunning, pc,
                   loc, runs, warns, starts, reqs, catalog0, codec,
                   deletedPubs>>

\* the publication of the request is delivered (the API process creates its
\* producer at start-up); the procedure answers success
RequestPublishSent ==
    /\ req.op # "none" /\ req.pc = "publish"
    /\ events' = Append(events, req.event)
    /\ req' = NoReq
    /\ UNCHANGED <<store, catalog, nextId, producer, isRunning, pc, loc, runs,
                   warns, starts, faults, reqs, catalog0, codec,
                   deletedPubs>>

\* producer.send rejects inside the publisher; the procedure answers success
RequestPublishFailed ==
    /\ req.op # "none" /\ req.pc = "publish"
    /\ faults < MaxFaults
    /\ faults' = faults + 1
    /\ req' = NoReq
    /\ UNCHANGED <<store, catalog, nextId, producer, events, isRunning, pc,
                   loc, runs, warns, starts, reqs, catalog0, codec,
                   deletedPubs>>

\* the hourly trigger alone invokes start() while requests are served
FlowCallers == {"cron"}

FlowNext ==
    \/ \E c \in FlowCallers :
        \/ Start(c)
        \/ ListS3Ok(c)
        \/ ListS3Fail(c)
        \/ ListDBOk(c)
        \/ ListDBFail(c)
        \/ CreateOk(c)
        \/ CreateFail(c)
        \/ DeleteOk(c)
        \/ DeleteFail(c)
        \/ PublishSkipped(c)
        \/ PublishSent(c)
        \/ PublishFailed(c)
    \/ UploadStart
    \/ UploadPutOk
    \/ UploadCreateOk
    \/ DeleteStart
    \/ DeleteFound
    \/ DeleteFileOk
    \/ DeleteRowOk
    \/ RequestFails
    \/ RequestPublishSent
    \/ RequestPublishFailed

\* before the first request: the clock of the uploads to come has not been
\* used for a key yet, and the bucket holds nothing outside the prefix
FlowInit ==
    /\ Init
    /\ \A o \in store : startsWith(o.Key, ListPrefix)
    /\ \A t \in 1..MaxRequests : \A input \in UploadInputs :
           /\ \A o \in store : o.Key # uploadKey(input, t)
           /\ \A row \in catalog : getKeyFromUrl(row.url) # uploadKey(input, t)

FlowSpec == FlowInit /\ [][FlowNext]_vars

(***************************************************************************)
(* Runs interleaved with uploads and deletes                               *)
(***************************************************************************)
\* the NormalizedKeys of the rows of the table
TableKeys == {getKeyFromUrl(row.url) : row \in catalog}

\* run n began when no request was in flight, and none has begun since
Undisturbed(n) == req.op = "none" /\ runs[n].reqsDone = reqs

\* C18: any race is resolved by the next run. When the latest run follows
\* an earlier run, has returned with every insert and delete succeeding,
\* and no upload or delete request has acted since it began, the keys of
\* the files in the store are the NormalizedKeys of the rows of the table.
C18_NextRunResolves ==
    LET n == Len(runs)
    IN  (/\ n >= 2
         /\ runs[n].outcome = "returned"
         /\ Clean(runs[n])
         /\ Undisturbed(n))
        => FileKeys(store) = TableKeys

\* C19: the job never deletes the record of a file that exists in the
\* store. In every step in which the job's prisma.file.delete removes a
\* row, no object whose key is the NormalizedKey of that row is in the
\* bucket.
C19_DeletesOnlyGoneFiles ==
    [][\A c \in Callers :
          (pc[c] = "delete" /\ pc'[c] = "publish") =>
              \A row \in catalog \ catalog' :
                  getKeyFromUrl(row.url) \notin FileKeys(store)
      ]_vars

\* no two rows of the table S share a NormalizedKey
NoDuplicates(S) ==
    \A r1, r2 \in S :
        getKeyFromUrl(r1.url) = getKeyFromUrl(r2.url) => r1 = r2

\* C20: the job never introduces a duplicate record. When no two rows of
\* the table shared a NormalizedKey before the first run and the first
\* request, no two rows of the table ever share one.
C20_NoDuplicateRecord ==
    NoDuplicates(catalog0) => NoDuplicates(catalog)

(***************************************************************************)
(* Runs interleaved with delete requests only                              *)
(***************************************************************************)
DeleteNext ==
    \/ \E c \in FlowCallers :
        \/ Start(c)
        \/ ListS3Ok(c)
        \/ ListS3Fail(c)
        \/ ListDBOk(c)
        \/ ListDBFail(c)
        \/ CreateOk(c)
        \/ CreateFail(c)
        \/ DeleteOk(c)
        \/ DeleteFail(c)
        \/ PublishSkipped(c)
        \/ PublishSent(c)
        \/ PublishFailed(c)
    \/ DeleteStart
    \/ DeleteFound
    \/ DeleteFileOk
    \/ DeleteRowOk
    \/ RequestFails
    \/ RequestPublishSent
    \/ RequestPublishFailed

DeleteSpec == FlowInit /\ [][DeleteNext]_vars

(***************************************************************************)
(* Publications of deletion events                                         *)
(***************************************************************************)
\* C21: at most one deletion-event publication is attempted per record id.
\* Over all runs and all delete requests, publishFileDeletedEvent is never
\* called twice with the same fileId: not twice within a run, not by a
\* later run for a record an earlier run deleted, and not by the job and
\* the delete procedure for the same record.
C21_OnePublicationPerRecord ==
    \A i, j \in 1..Len(deletedPubs) :
        deletedPubs[i].fileId = deletedPubs[j].fileId => i = j

\* the job has deleted and published for a record that a delete request,
\* having found it and removed its object, is about to delete
C21_Witness ==
    /\ req.op = "delete" /\ req.pc = "deleteRow"
    /\ \E k \in 1..Len(deletedPubs) :
         deletedPubs[k].by = "job" /\ deletedPubs[k].fileId = req.id

\* the publication calls of run r for record id
PubCallsFor(r, id) == {k \in 1..Len(r.pubs) : r.pubs[k].fileId = id}

\* C22: a deletion event is published only after the delete of the same
\* record has succeeded in the same run. Every publication call of a run is
\* for a record whose delete call of that run succeeded, and was made in
\* the step in which that delete resolved; the step in which a delete
\* fails makes no publication call, delivers no event and leaves the
\* record in the table; and while a publication is outstanding the last
\* delete of the run is the successful delete of that record.
C22_PublishOnlyAfterDelete ==
    /\ [](\A n \in 1..Len(runs) :
            /\ \A k \in 1..Len(runs[n].pubs) :
                   \E d \in 1..Len(runs[n].deletes) :
                       /\ runs[n].deletes[d].ok
                       /\ runs[n].deletes[d].id = runs[n].pubs[k].fileId
            /\ \A d \in 1..Len(runs[n].deletes) :
                   ~runs[n].deletes[d].ok =>
                       PubCallsFor(runs[n], runs[n].deletes[d].id) = {})
    /\ [](\A c \in Callers :
            pc[c] = "publish" =>
                LET r == RunOf(c)
                IN  /\ r.deletes[Len(r.deletes)].ok
                    /\ r.deletes[Len(r.deletes)].id = r.pubs[Len(r.pubs)].fileId
                    /\ \A row \in catalog : row.id # r.pubs[Len(r.pubs)].fileId)
    /\ [][\A c \in Callers :
            (pc[c] = "delete" /\ (pc'[c] # pc[c] \/ loc'[c] # loc[c])) =>
                LET r == runs'[loc[c].n]
                    last == r.deletes[Len(r.deletes)]
                IN  IF last.ok
                    THEN /\ pc'[c] = "publish"
                         /\ Len(r.pubs) = Len(RunOf(c).pubs) + 1
                    ELSE /\ pc'[c] # "publish"
                         /\ r.pubs = RunOf(c).pubs
                         /\ events' = events
                         /\ catalog' = catalog
                         /\ \E row \in catalog' : row.id = last.id
         ]_vars

\* the delete of a record failed on an initialised producer: the run
\* returned with no publication call and no event, the record still there
C22_Witness ==
    \E n \in 1..Len(runs) :
        /\ producer
        /\ runs[n].outcome = "returned"
        /\ Len(runs[n].deletes) = 1 /\ ~runs[n].deletes[1].ok
        /\ runs[n].pubs = <<>> /\ events = <<>>
        /\ \E row \in catalog : row.id = runs[n].deletes[1].id

\* the rows of the table snapshot of a run that share their NormalizedKey
\* with another row of the snapshot
Duplicated(r) ==
    {d \in Range(r.dbFiles) :
        \E e \in Range(r.dbFiles) :
            e.id # d.id /\ NormalizedKey(e) = NormalizedKey(d)}

ItemsOf(r, id) == {k \in 1..Len(r.missingInS3) : r.missingInS3[k].id = id}

\* C23 as stated: in a run that has returned, all the rows that share a
\* NormalizedKey absent from the store listing have been deleted, with one
\* delete and one publication each.
C23_Original ==
    \A n \in 1..Len(runs) :
        runs[n].outcome = "returned" =>
            \A d \in Duplicated(runs[n]) :
                NormalizedKey(d) \notin StoreKeys(runs[n]) =>
                    /\ Cardinality(DeletesOf(runs[n], d.id)) = 1
                    /\ Cardinality(PubsOf(runs[n], d.id)) = 1
                    /\ (n = Len(runs) => \A row \in catalog : row.id # d.id)

\* C23 (amended): rows of the snapshot that share their NormalizedKey are
\* treated independently. When the key is absent from the store listing,
\* each of them is once in missingInS3 and a run that returns has called
\* delete once for each id; each delete that succeeded has one publication
\* and its row is gone, each delete that failed has none and its row
\* remains. When the key is present in the store listing none of them is in
\* missingInS3, none has a delete or a publication, and each is still in
\* the table as it was read.
C23_DuplicatesIndependent ==
    \A n \in 1..Len(runs) :
        LET r == runs[n] IN
        r.diffed =>
            \A d \in Duplicated(r) :
                IF NormalizedKey(d) \notin StoreKeys(r)
                THEN /\ Cardinality(ItemsOf(r, d.id)) = 1
                     /\ Cardinality(DeletesOf(r, d.id)) <= 1
                     /\ r.outcome = "returned" =>
                            Cardinality(DeletesOf(r, d.id)) = 1
                     /\ \A k \in DeletesOf(r, d.id) :
                            /\ Cardinality(PubsOf(r, d.id)) =
                                   (IF r.deletes[k].ok THEN 1 ELSE 0)
                            /\ n = Len(runs) =>
                                   (r.deletes[k].ok <=> \A row \in catalog : row.id # d.id)
                     /\ DeletesOf(r, d.id) = {} => PubsOf(r, d.id) = {}
                ELSE /\ ItemsOf(r, d.id) = {}
                     /\ DeletesOf(r, d.id) = {}
                     /\ PubsOf(r, d.id) = {}
                     /\ n = Len(runs) => \E row \in catalog : toDBFile(row) = d

\* a run has returned after deleting, one by one, two rows that had the
\* same NormalizedKey, with a publication for each
C23_Witness ==
    \E n \in 1..Len(runs) :
        /\ runs[n].outcome = "returned"
        /\ \E d, e \in Duplicated(runs[n]) :
             /\ d.id # e.id
             /\ NormalizedKey(d) = NormalizedKey(e)
             /\ NormalizedKey(d) \notin StoreKeys(runs[n])
             /\ \A x \in {d, e} :
                  /\ \E k \in DeletesOf(runs[n], x.id) : runs[n].deletes[k].ok
                  /\ Cardinality(PubsOf(runs[n], x.id)) = 1
                  /\ \A row \in catalog : row.id # x.id

OkDeletes(r) == {k \in 1..Len(r.deletes) : r.deletes[k].ok}

\* the callers suspended on an external call of run n
Outstanding(n) == {c \in Callers : InFlight(c) /\ loc[c].n = n}

\* C24: within one run the external calls are sequential and ordered. A run
\* has at most one call outstanding. While the listing is outstanding the
\* table has not been read; while the table read is outstanding the listing
\* has completed and no repair has been called; while insert i is
\* outstanding the inserts before it have completed and no delete and no
\* publication has been called; while delete j is outstanding every insert
\* of the create pass has completed, the deletes before j have completed
\* and each successful one has had its publication; while a publication is
\* outstanding it is the one of the delete just completed, called before
\* the delete of the next record.
C24_SequentialCalls ==
    \A n \in 1..Len(runs) :
        LET r == runs[n] IN
        /\ Cardinality(Outstanding(n)) <= 1
        /\ r.outcome = "running" <=> Outstanding(n) # {}
        /\ \A c \in Outstanding(n) :
             CASE pc[c] = "listS3" ->
                    /\ r.readCalls = 0 /\ ~r.diffed
                    /\ r.inserts = <<>> /\ r.deletes = <<>> /\ r.pubs = <<>>
               [] pc[c] = "listDB" ->
                    /\ r.listCalls = 1 /\ r.readCalls = 1 /\ ~r.diffed
                    /\ r.inserts = <<>> /\ r.deletes = <<>> /\ r.pubs = <<>>
               [] pc[c] = "create" ->
                    /\ r.diffed
                    /\ Len(r.inserts) = loc[c].i - 1
                    /\ loc[c].i \in 1..Len(r.missingInDB)
                    /\ r.deletes = <<>> /\ r.pubs = <<>>
               [] pc[c] = "delete" ->
                    /\ r.diffed
                    /\ Len(r.inserts) = Len(r.missingInDB)
                    /\ Len(r.deletes) = loc[c].i - 1
                    /\ loc[c].i \in 1..Len(r.missingInS3)
                    /\ Len(r.pubs) = Cardinality(OkDeletes(r))
               [] pc[c] = "publish" ->
                    /\ r.diffed
                    /\ Len(r.inserts) = Len(r.missingInDB)
                    /\ Len(r.deletes) = loc[c].i
                    /\ loc[c].i \in 1..Len(r.missingInS3)
                    /\ r.deletes[loc[c].i].ok
                    /\ r.deletes[loc[c].i].id = r.missingInS3[loc[c].i].id
                    /\ Len(r.pubs) = Cardinality(OkDeletes(r))
                    /\ r.pubs[Len(r.pubs)].fileId = r.missingInS3[loc[c].i].id
        /\ \A k \in 1..Len(r.deletes) : r.deletes[k].id = r.missingInS3[k].id

\* the publication for the second missing-in-store record is outstanding,
\* after an insert pass and the delete and publication of the first
C24_Witness ==
    \E c \in Callers :
        /\ pc[c] = "publish" /\ loc[c].i = 2
        /\ Len(RunOf(c).inserts) >= 1
        /\ Len(RunOf(c).pubs) = 2

(***************************************************************************)
(* Termination of a run                                                    *)
(***************************************************************************)
\* the call caller c is suspended on returns or fails
Returns(c) ==
    \/ ListS3Ok(c) \/ ListS3Fail(c)
    \/ ListDBOk(c) \/ ListDBFail(c)
    \/ CreateOk(c) \/ CreateFail(c)
    \/ DeleteOk(c) \/ DeleteFail(c)
    \/ PublishSkipped(c) \/ PublishSent(c) \/ PublishFailed(c)

\* the job, every store, table and event-bus call of which eventually
\* returns or fails
\* a bucket that holds files under the prefix only, and a table of rows
\* with distinct urls, one of them with a foreign endpoint
LiveInit ==
    /\ Init
    /\ \A o \in store : startsWith(o.Key, ListPrefix) /\ ~endsWith(o.Key, "/")
    /\ \A row \in catalog : row.uploadedBy = "alice"

LiveSpec ==
    LiveInit /\ [][Next]_vars /\ \A c \in Callers : WF_vars(Returns(c))

\* C25: every admitted run terminates and frees the guard. Provided each
\* store, table and event-bus call eventually returns or fails, a caller
\* inside the pipeline eventually gets its start() back, returned or
\* raised, and a set flag is eventually cleared; the flag is never set
\* with no run in flight, and a run that has ended never resumes.
C25_RunTerminates ==
    /\ \A c \in Callers : InFlight(c) ~> (pc[c] \in {"returned", "raised"})
    /\ isRunning.syncJob ~> ~isRunning.syncJob
    /\ [](isRunning.syncJob => ~Quiet)
    /\ [](\A n \in 1..Len(runs) :
            Running(n) <=> (isRunning.syncJob /\ n = Len(runs)))

\* both admitted runs have ended, one raised and one returned after a
\* repair, and the flag is clear
C25_Witness ==
    /\ Len(runs) = 2
    /\ runs[1].outcome = "raised" /\ runs[2].outcome = "returned"
    /\ Len(runs[2].deletes) + Len(runs[2].inserts) > 0
    /\ ~isRunning.syncJob /\ Quiet

\* C26: convergence. When a run has returned with every insert and delete
\* succeeding, nobody else having changed either side, the NormalizedKeys
\* of the table are the keys of the files in the store, and every row the
\* run inserted has a url from which getKeyFromUrl recovers the key of the
\* object it was created for.
C26_Convergence ==
    (Quiet /\ Len(runs) > 0 /\ Clean(runs[Len(runs)])) =>
        /\ TableKeys = FileKeys(store)
        /\ \A k \in 1..Len(runs[Len(runs)].inserts) :
               getKeyFromUrl(runs[Len(runs)].inserts[k].data.url) =
                   runs[Len(runs)].missingInDB[k].id

\* C27: the system sentinel is distinct from any end-user identity. No step
\* of the upload flow puts a row whose uploadedBy is 'system-sync' into the
\* table: every such row was inserted by the repair path of the job.
C27_SentinelOnlyFromJob ==
    [][(req.op = "upload" /\ req' # req) =>
           \A row \in catalog' \ catalog : row.uploadedBy # SystemSync]_vars

(***************************************************************************)
(* Two S3DBSyncJob instances in one process                                *)
(***************************************************************************)
\* the cron callback on syncJob, and a caller with an instance of its own
InstCallers == {"cron", "other"}

InstNext ==
    \E c \in InstCallers :
        \/ Start(c)
        \/ ListS3Ok(c)
        \/ ListS3Fail(c)
        \/ ListDBOk(c)
        \/ ListDBFail(c)
        \/ CreateOk(c)
        \/ CreateFail(c)
        \/ DeleteOk(c)
        \/ DeleteFail(c)
        \/ PublishSkipped(c)
        \/ PublishSent(c)
        \/ PublishFailed(c)

\* the two instances on the bucket and the table of LiveInit
InstInit == LiveInit

InstSpec == InstInit /\ [][InstNext]_vars

\* C28: the run guard is owned by the job instance. Each instance has its
\* own flag, set exactly while a run of that instance is in flight; a
\* start() on one instance is admitted and calls its listing whatever the
\* other instance is doing, so no start() is skipped when each instance
\* has one caller, and a step of a run leaves the flag of the other
\* instance alone.
C28_GuardPerInstance ==
    /\ [](/\ isRunning.syncJob <=> InFlight("cron")
          /\ isRunning.otherJob <=> InFlight("other")
          /\ warns = 0)
    /\ [][\A c \in InstCallers :
            /\ (~InFlight(c) /\ pc'[c] # pc[c]) =>
                   /\ pc'[c] = "listS3"
                   /\ Len(runs') = Len(runs) + 1
                   /\ runs'[Len(runs')].caller = c
            /\ (pc'[c] = pc[c] /\ loc'[c] = loc[c]) =>
                   (InFlight(c)' <=> InFlight(c))
         ]_vars

\* runs of the two instances are in flight together, each past its
\* listing, with both flags set
C28_Witness ==
    /\ isRunning.syncJob /\ isRunning.otherJob
    /\ pc["cron"] \in {"create", "delete", "publish"}
    /\ pc["other"] \in {"listDB", "create", "delete", "publish"}
    /\ Len(runs) = 2

\* C29: the job never mutates the object store. No step of a run changes
\* the set of objects of the bucket; a step changes the table only by
\* adding the one row prisma.file.create makes for the item of the create
\* pass it is at, or by removing the one row whose id is that of the item
\* of the delete pass it is at, and never rewrites a row.
C29_StoreUntouched ==
    [][/\ store' = store
       /\ \/ catalog' = catalog
          \/ \E c \in Callers :
               /\ pc[c] = "create"
               /\ \E row \in catalog' :
                    /\ row.id = nextId /\ nextId' = nextId + 1
                    /\ row.url = RunOf(c).missingInDB[loc[c].i].url
                    /\ \A old \in catalog : old.id # row.id
                    /\ catalog' = catalog \cup {row}
          \/ \E c \in Callers :
               /\ pc[c] = "delete"
               /\ \E row \in catalog :
                    /\ row.id = RunItem(c).id
                    /\ catalog' = catalog \ {row}
      ]_vars

\* a run has returned after an insert and, the listing having been cut
\* short, the delete of the row of an object that is still in the bucket
C29_Witness ==
    \E n \in 1..Len(runs) :
        /\ runs[n].outcome = "returned"
        /\ \E k \in 1..Len(runs[n].inserts) : runs[n].inserts[k].ok
        /\ \E k \in 1..Len(runs[n].deletes) :
             /\ runs[n].deletes[k].ok
             /\ getKeyFromUrl(runs[n].missingInS3[k].url) \in FileKeys(store)

\* C30: errors are handled gracefully. A start() whose store listing has
\* failed logs the error and completes without rejecting, and the start()
\* that follows is admitted and performs the store listing again.
C30_ErrorsHandledGracefully ==
    \A n \in 1..Len(runs) :
        runs[n].failed = "S3 error" =>
            /\ runs[n].outcome # "raised"
            /\ runs[n].raised = "none"
            /\ \A c \in Callers : loc[c].n = n => pc[c] # "raised"
            /\ n < Len(runs) => runs[n + 1].listCalls = 1

====
